---- MODULE Spec2Model ----
(***************************************************************************)
(* GeoPackage import handler of geonode-importer                           *)
(* (src/importer/handlers/gpkg/handler.py).                                *)
(*                                                                         *)
(* The model follows one or two execution requests through                 *)
(* GPKGFileHandler.import_resource, the celery tasks it dispatches         *)
(* (gpkg_handler, gpkg_ogr2ogr), the chord body gpkg_next_step and the     *)
(* link_error task error_callback, over a shared store of ModelSchema and  *)
(* FieldSchema rows.  Every database statement of the code is one step;    *)
(* the workers interleave freely.                                          *)
(***************************************************************************)
EXTENDS Naturals, Integers, Sequences, FiniteSets, TLC

VARIABLES
    source,         \* per execution: what ogr.Open finds in the base file
    input_params,   \* per execution: ExecutionRequest.input_params
    exec_updates,   \* per execution: number of _update_execution_request calls
    schemas,        \* ModelSchema rows
    next_id,        \* next primary key of ModelSchema
    field_rows,     \* FieldSchema rows
    tables,         \* physical tables of the datastore
    coord,          \* per execution: position and locals of import_resource
    tasks,          \* dispatched header tasks of the chords
    workflows       \* dispatched chords, one per imported layer

vars == <<source, input_params, exec_updates, schemas, next_id, field_rows, tables,
          coord, tasks, workflows>>

-----------------------------------------------------------------------------
(* Values *)

\* Python's None where a string is expected
None == "None"

\* the executions that may run side by side
Execs == {1, 2}

\* execution ids are UUIDs: hexadecimal digits separated by hyphens
ExecutionId(e) == IF e = 1 THEN <<"1", "-", "a">> ELSE <<"2", "-", "a">>

\* str.replace(old, new) on a string held as a sequence of characters
Replace(s, old, new) == [i \in DOMAIN s |-> IF s[i] = old THEN new ELSE s[i]]

\* a suffix that keeps the hyphens of the execution id
UuidNameKeepsHyphens(name, execution_id) == name \o <<"_">> \o execution_id

\* f"{layer.GetName()}_{execution_id.replace('-', '_')}"
UuidName(name, execution_id) == name \o <<"_">> \o Replace(execution_id, "-", "_")

\* str.lower() on the field names that occur
Lower(s) ==
    CASE s = "ID" -> "id"
      [] s = "Name" -> "name"
      [] OTHER -> s

\* importer.handlers.gpkg.utils.STANDARD_TYPE_MAPPING.get(type name)
STANDARD_TYPE_MAPPING(t) ==
    CASE t = "Integer" -> "django.db.models.IntegerField"
      [] t = "String" -> "django.db.models.CharField"
      [] OTHER -> None

\* importer.handlers.gpkg.utils.GEOM_TYPE_MAPPING.get(geometry type name)
GEOM_TYPE_MAPPING(t) ==
    CASE t = "Polygon" -> "django.contrib.gis.db.models.fields.PolygonField"
      [] OTHER -> None

\* class_name.endswith('CharField')
EndsWithCharField(c) == c \in {"django.db.models.CharField"}

-----------------------------------------------------------------------------
(* Layers and files *)

\* number of attribute columns of the wide layer
BigAttrs == 30

\* largest number of attribute columns where only the coordinator runs
MaxWidth == 61

\* primary keys below this one were given out before the executions start
FirstNewId == 2

\* length of the slices cut by create_dynamic_model_fields
ChunkSize == 30

LayerA == <<"a">>
LayerB == <<"b">>

\* a layer with columns ID, Name and a polygon geometry
Parcels(n) ==
    [name |-> n,
     schema |-> << [name |-> "ID", type |-> "Integer"],
                   [name |-> "Name", type |-> "String"] >>,
     geom_col |-> "geom", geom_type |-> "Polygon"]

\* the same layer with a column type the mapping does not know
BadColumn(n) ==
    [name |-> n,
     schema |-> << [name |-> "ID", type |-> "Integer"],
                   [name |-> "Name", type |-> "Binary"] >>,
     geom_col |-> "geom", geom_type |-> "Polygon"]

\* the same layer with a geometry type the mapping does not know
BadGeom(n) ==
    [name |-> n,
     schema |-> << [name |-> "ID", type |-> "Integer"],
                   [name |-> "Name", type |-> "String"] >>,
     geom_col |-> "geom", geom_type |-> "Unknown"]

\* a layer without geometry column
NoGeom(n) ==
    [name |-> n,
     schema |-> << [name |-> "ID", type |-> "Integer"] >>,
     geom_col |-> None, geom_type |-> None]

\* a wide layer: BigAttrs integer columns f1, f2, ... and a geometry; column
\* bad (0 for none) has an unknown type
Big(n, bad, gtype) ==
    [name |-> n,
     schema |-> [i \in 1..BigAttrs |->
                    [name |-> "f" \o ToString(i),
                     type |-> IF i = bad THEN "Binary" ELSE "Integer"]],
     geom_col |-> "geom", geom_type |-> gtype]

\* a layer of any width: attrs integer columns, with or without a geometry
Wide(n, attrs, geom) ==
    [name |-> n,
     schema |-> [i \in 1..attrs |-> [name |-> "f" \o ToString(i), type |-> "Integer"]],
     geom_col |-> IF geom THEN "geom" ELSE None,
     geom_type |-> IF geom THEN "Polygon" ELSE None]

\* what ogr.Open returns: nothing, or the layers of the file
Unreadable == [readable |-> FALSE, layers |-> <<>>]
File(ls) == [readable |-> TRUE, layers |-> ls]

-----------------------------------------------------------------------------
(* create_dynamic_model_fields: the field list and its slices *)

Min(a, b) == IF a < b THEN a ELSE b

\* the dict built for one column of layer.schema
AttrField(x) ==
    [name |-> Lower(x.name), class_name |-> STANDARD_TYPE_MAPPING(x.type), null |-> TRUE]

\* the dict built for the geometry column (it has no "null" key)
GeomField(layer) ==
    [name |-> layer.geom_col, class_name |-> GEOM_TYPE_MAPPING(layer.geom_type)]

\* layer_schema: the columns, then the geometry column when the layer has one
LayerSchema(layer) ==
    [i \in 1..Len(layer.schema) |-> AttrField(layer.schema[i])]
    \o (IF layer.geom_col # None /\ layer.geom_col # ""
        THEN <<GeomField(layer)>> ELSE <<>>)

\* range(0, stop, step) as a sequence
RECURSIVE RangeFrom(_, _, _)
RangeFrom(i, stop, step) ==
    IF i >= stop THEN <<>> ELSE <<i>> \o RangeFrom(i + step, stop, step)

\* the Python slice s[i:j], i and j counted from 0
Slice(s, i, j) == SubSeq(s, i + 1, Min(j, Len(s)))

\* slices one field short: layer_schema[i:i + 29]
ListChunkedShortSlices(layer_schema) ==
    LET starts == RangeFrom(0, Len(layer_schema), ChunkSize)
    IN  [k \in 1..Len(starts) |->
            Slice(layer_schema, starts[k], starts[k] + ChunkSize - 1)]

\* [layer_schema[i:i + 30] for i in range(0, len(layer_schema), 30)]
ListChunked(layer_schema) ==
    LET starts == RangeFrom(0, Len(layer_schema), ChunkSize)
    IN  [k \in 1..Len(starts) |-> Slice(layer_schema, starts[k], starts[k] + ChunkSize)]

\* the signature gpkg_handler.s(execution_id, schema, id, overwrite, layer_name)
HandlerArgs(execution_id, chunk, schema_id, overwrite, layer_name) ==
    <<execution_id, chunk, schema_id, overwrite, layer_name>>

\* the group of create_dynamic_model_fields: one signature per slice
FieldsJob(layer, schema_id, overwrite, execution_id, layer_name) ==
    LET list_chunked == ListChunked(LayerSchema(layer))
    IN  [k \in 1..Len(list_chunked) |->
            HandlerArgs(execution_id, list_chunked[k], schema_id, overwrite, layer_name)]

\* a signature that ends with the layer's own name
OgrArgsOriginalName(execution_id, files, original_name, override_layer, alternate) ==
    <<execution_id, files, original_name, override_layer, original_name>>

\* the signature gpkg_ogr2ogr.s(execution_id, files, name, override, alternate)
OgrArgs(execution_id, files, original_name, override_layer, alternate) ==
    <<execution_id, files, original_name, override_layer, alternate>>

\* args[-1] of a signature
LastArg(args) == args[Len(args)]

-----------------------------------------------------------------------------
(* The store: ModelSchema and FieldSchema *)

SchemaRow(id, name, table) ==
    [id |-> id, name |-> name, db_name |-> "datastore", managed |-> FALSE,
     db_table_name |-> table]

\* ModelSchema.objects.filter(name=...)
SchemasNamed(rows, name) == {r \in rows : r.name = name}

\* ModelSchema.objects.filter(id=...)
SchemasWithId(rows, id) == {r \in rows : r.id = id}

\* the rows matched by the lookup of get_or_create
GocMatch(rows, name, table) ==
    {r \in rows : /\ r.name = name /\ r.db_name = "datastore"
                  /\ r.managed = FALSE /\ r.db_table_name = table}

\* ModelSchema.objects.get_or_create(name, db_name, managed, db_table_name):
\* the row found, or a new one; ok is FALSE when the insert breaks the
\* uniqueness of the name
GetOrCreate(rows, id, name, table) ==
    IF GocMatch(rows, name, table) # {}
    THEN [ok |-> TRUE, obj |-> CHOOSE r \in GocMatch(rows, name, table) : TRUE,
          created |-> FALSE, rows |-> rows, next_id |-> id]
    ELSE IF SchemasNamed(rows, name) # {}
    THEN [ok |-> FALSE, obj |-> SchemaRow(0, name, table),
          created |-> FALSE, rows |-> rows, next_id |-> id]
    ELSE [ok |-> TRUE, obj |-> SchemaRow(id, name, table),
          created |-> TRUE, rows |-> rows \cup {SchemaRow(id, name, table)},
          next_id |-> id + 1]

\* FieldSchema(name, class_name, model_schema, kwargs)
FieldRow(schema_id, field, kwargs) ==
    [model_schema |-> schema_id, name |-> field.name,
     class_name |-> field.class_name, kwargs |-> kwargs]

\* FieldSchema.objects.filter(name=..., model_schema=...)
FieldsMatching(rows, name, schema_id) ==
    {r \in rows : r.name = name /\ r.model_schema = schema_id}

\* the FieldSchema rows of a schema
FieldsOf(rows, schema_id) == {r \in rows : r.model_schema = schema_id}

-----------------------------------------------------------------------------
(* gpkg_handler: one slice of fields *)

\* max_length given to the text columns
MaxLength == 255

\* field.get('null', True)
NullOf(field) == IF "null" \in DOMAIN field THEN field.null ELSE TRUE

\* _kwargs of one field
KwargsOf(field) ==
    IF EndsWithCharField(field.class_name)
    THEN [null |-> NullOf(field), max_length |-> MaxLength]
    ELSE [null |-> NullOf(field)]

\* a test that looks at the name alone
InvalidFieldNameOnly(field) == field.name = None

\* field['class_name'] is None or field['name'] is None
InvalidField(field) == field.class_name = None \/ field.name = None

\* a filter on the schema alone
FieldExistsAnyName(rows, field, schema_id) == FieldsOf(rows, schema_id)

\* the rows selected by _field_exists
FieldExists(rows, field, schema_id) == FieldsMatching(rows, field.name, schema_id)

\* _field_exists.update(class_name, model_schema, kwargs)
UpdateFields(rows, hit, field, schema_id) ==
    {IF r \in hit
     THEN [r EXCEPT !.class_name = field.class_name, !.model_schema = schema_id,
                    !.kwargs = KwargsOf(field)]
     ELSE r : r \in rows}

\* a task as it is queued
NewTask(kind, args) ==
    [kind |-> kind, args |-> args, pc |-> "queued", i |-> 1,
     row_to_insert |-> <<>>, result |-> [raised |-> FALSE, value |-> None]]

\* the first statements of gpkg_handler: the schema must still be there
HandlerStart(t, srows) ==
    IF SchemasWithId(srows, t.args[3]) = {}
    THEN [t EXCEPT !.pc = "failed",
                    !.result = [raised |-> TRUE, value |-> "DynamicModelError"]]
    ELSE [t EXCEPT !.pc = "loop"]

\* one turn of the loop over the fields; the pair of the task and the
\* FieldSchema rows afterwards
HandlerField(t, frows) ==
    LET fields == t.args[2]
        schema_id == t.args[3]
        overwrite == t.args[4]
        field == fields[t.i]
        hit == FieldExists(frows, field, schema_id)
        insert == (~overwrite) \/ hit = {}
        rows == IF insert
                THEN Append(t.row_to_insert, FieldRow(schema_id, field, KwargsOf(field)))
                ELSE t.row_to_insert
        after == IF t.i < Len(fields) THEN "loop"
                 ELSE IF rows # <<>> THEN "bulk" ELSE "success"
    IN  IF InvalidField(field)
        THEN <<[t EXCEPT !.pc = "failed", !.row_to_insert = <<>>,
                         !.result = [raised |-> TRUE, value |-> "InvalidFieldNameError"]],
               frows>>
        ELSE <<[t EXCEPT !.pc = after, !.i = t.i + 1,
                         !.row_to_insert = IF after = "success" THEN <<>> ELSE rows],
               IF insert THEN frows ELSE UpdateFields(frows, hit, field, schema_id)>>

\* a store that looks at the uniqueness of (name, model_schema) alone
BulkAcceptedUniqueOnly(rows, srows, frows) ==
    /\ \A k \in DOMAIN rows :
          FieldsMatching(frows, rows[k].name, rows[k].model_schema) = {}
    /\ \A k, l \in DOMAIN rows :
          k # l => ~(rows[k].name = rows[l].name
                     /\ rows[k].model_schema = rows[l].model_schema)

\* whether the store accepts the rows of bulk_create: the schema they point
\* to exists, and (name, model_schema) stays unique
BulkAccepted(rows, srows, frows) ==
    /\ \A k \in DOMAIN rows :
          /\ SchemasWithId(srows, rows[k].model_schema) # {}
          /\ FieldsMatching(frows, rows[k].name, rows[k].model_schema) = {}
    /\ \A k, l \in DOMAIN rows :
          k # l => ~(rows[k].name = rows[l].name
                     /\ rows[k].model_schema = rows[l].model_schema)

\* FieldSchema.objects.bulk_create(row_to_insert, 50): all rows or none
HandlerBulk(t, srows, frows) ==
    IF BulkAccepted(t.row_to_insert, srows, frows)
    THEN <<[t EXCEPT !.pc = "success", !.row_to_insert = <<>>],
           frows \cup {t.row_to_insert[k] : k \in DOMAIN t.row_to_insert}>>
    ELSE <<[t EXCEPT !.pc = "failed", !.row_to_insert = <<>>,
                     !.result = [raised |-> TRUE, value |-> "IntegrityError"]],
           frows>>

\* gpkg_handler run from its first statement to its last with nothing in
\* between: the pair of the task and the FieldSchema rows afterwards
RECURSIVE HandlerRun(_, _, _)
HandlerRun(t, srows, frows) ==
    CASE t.pc = "queued" -> HandlerRun(HandlerStart(t, srows), srows, frows)
      [] t.pc = "loop" ->
            LET r == HandlerField(t, frows) IN HandlerRun(r[1], srows, r[2])
      [] t.pc = "bulk" ->
            LET r == HandlerBulk(t, srows, frows) IN HandlerRun(r[1], srows, r[2])
      [] OTHER -> <<t, frows>>

-----------------------------------------------------------------------------
(* gpkg_ogr2ogr *)

\* bytes.decode() on the bytes that occur
Chr(b) ==
    CASE b = 111 -> "o"
      [] b = 107 -> "k"
      [] OTHER -> "E"

Decode(bytes) == [i \in DOMAIN bytes |-> Chr(bytes[i])]

\* what process.communicate() can hand back, and whether the tool wrote the
\* target table: a clean load, a failure, a load with a warning
OgrOutcomes ==
    { [stdout |-> <<111, 107>>, stderr |-> <<>>, wrote |-> TRUE],
      [stdout |-> <<>>, stderr |-> <<69>>, wrote |-> FALSE],
      [stdout |-> <<111, 107>>, stderr |-> <<69>>, wrote |-> TRUE] }

\* a task that fails only when the tool wrote nothing on stdout
OgrResultOnEmptyStdout(t, out) ==
    IF out.stdout = <<>>
    THEN [t EXCEPT !.pc = "failed", !.result = [raised |-> TRUE, value |-> out.stderr]]
    ELSE [t EXCEPT !.pc = "success",
                   !.result = [raised |-> FALSE, value |-> Decode(out.stdout)]]

\* the last statements of gpkg_ogr2ogr (with stderr=PIPE communicate() always
\* hands back bytes, so "stderr is not None" holds)
OgrResult(t, out) ==
    IF out.stderr # <<>>
    THEN [t EXCEPT !.pc = "failed", !.result = [raised |-> TRUE, value |-> out.stderr]]
    ELSE [t EXCEPT !.pc = "success",
                   !.result = [raised |-> FALSE, value |-> Decode(out.stdout)]]

-----------------------------------------------------------------------------
(* error_callback *)

\* schema_model.exists()
CallbackFinds(t, srows) == SchemasNamed(srows, LastArg(t.args)) # {}

\* a drop of the table of that name, whether its ModelSchema is there or not
DroppedTablesByName(t, srows) == {LastArg(t.args)}

\* the tables schema.drop_table removes when it succeeds
DroppedTables(t, srows) == {r.db_table_name : r \in SchemasNamed(srows, LastArg(t.args))}

\* schema_model.delete(): the rows of that name
DeletedSchemas(t, srows) == SchemasNamed(srows, LastArg(t.args))

\* the FieldSchema rows left when the schemas gone take their fields along
CascadeFields(frows, gone) ==
    {r \in frows : \A g \in gone : r.model_schema # g.id}

-----------------------------------------------------------------------------
(* Initial states *)

\* the rows an earlier import of layer n left behind: its schema under
\* id 1, some of its fields as they were typed then, and its table
PriorSchemas(n) == {SchemaRow(1, n, n)}
PriorFields ==
    { [model_schema |-> 1, name |-> "id", class_name |-> "django.db.models.CharField",
       kwargs |-> [null |-> TRUE, max_length |-> MaxLength]],
      [model_schema |-> 1, name |-> "f1", class_name |-> "django.db.models.CharField",
       kwargs |-> [null |-> TRUE, max_length |-> MaxLength]] }

Stores ==
    { [schemas |-> {}, field_rows |-> {}, tables |-> {}, next_id |-> FirstNewId],
      [schemas |-> PriorSchemas(LayerA), field_rows |-> PriorFields,
       tables |-> {LayerA}, next_id |-> FirstNewId] }

\* files of one narrow layer, of two, and of one wide layer
OneLayerFiles ==
    {File(<<l>>) : l \in {Parcels(LayerA), BadColumn(LayerA), BadGeom(LayerA),
                          NoGeom(LayerA)}}
TwoLayerFiles ==
    {File(<<l1, l2>>) : l1 \in {Parcels(LayerA), BadColumn(LayerA)},
                        l2 \in {Parcels(LayerB), BadGeom(LayerB)}}
BigFiles ==
    {File(<<Big(LayerA, bad, gtype)>>) :
        bad \in {0, 1, BigAttrs}, gtype \in {"Polygon", "Unknown"}}
NoLayerFiles == {Unreadable, File(<<>>)}

\* the request's flags
Flags(override, skip) ==
    [override_existing_layer |-> override, skip_existing_layer |-> skip]

Params(e, flags) ==
    [files |-> [base_file |-> e],
     override_existing_layer |-> flags.override_existing_layer,
     skip_existing_layer |-> flags.skip_existing_layer]

\* one execution imports a file; the other one finds no layer in its file
AloneScenarios ==
    { [source |-> <<f, File(<<>>)>>, flags |-> <<fl, Flags(FALSE, FALSE)>>, store |-> st] :
        f \in OneLayerFiles \cup TwoLayerFiles \cup BigFiles \cup NoLayerFiles,
        fl \in {Flags(FALSE, FALSE), Flags(TRUE, FALSE), Flags(FALSE, TRUE)},
        st \in Stores }

\* one execution imports one layer of any width
WidthScenarios ==
    { [source |-> <<File(<<Wide(LayerA, attrs, geom)>>), File(<<>>)>>,
       flags |-> <<Flags(o, FALSE), Flags(FALSE, FALSE)>>, store |-> st] :
        attrs \in 0..MaxWidth, geom \in BOOLEAN, o \in BOOLEAN, st \in Stores }

\* two executions import the same layer side by side
PairScenarios ==
    { [source |-> <<File(<<l1>>), File(<<l2>>)>>,
       flags |-> <<Flags(o1, FALSE), Flags(o2, FALSE)>>, store |-> st] :
        l1 \in {Parcels(LayerA), BadColumn(LayerA)},
        l2 \in {Parcels(LayerA), BadGeom(LayerA)},
        o1 \in BOOLEAN, o2 \in BOOLEAN, st \in Stores }

CoordStart ==
    [pc |-> "start", index |-> 0, layer_count |-> 0, layer_name |-> <<>>,
     use_uuid |-> FALSE, foi_schema |-> 0]

InitFrom(scenarios) ==
    /\ \E sc \in scenarios :
          /\ source = [e \in Execs |-> sc.source[e]]
          /\ input_params = [e \in Execs |-> Params(e, sc.flags[e])]
          /\ schemas = sc.store.schemas
          /\ field_rows = sc.store.field_rows
          /\ tables = sc.store.tables
          /\ next_id = sc.store.next_id
    /\ exec_updates = [e \in Execs |-> 0]
    /\ coord = [e \in Execs |-> CoordStart]
    /\ tasks = << >>
    /\ workflows = << >>

Init == InitFrom(AloneScenarios \cup PairScenarios)

\* one execution alone
InitAlone == InitFrom(AloneScenarios)

\* one execution alone, layers of every width
InitWidths == InitFrom(WidthScenarios \cup AloneScenarios)

-----------------------------------------------------------------------------
(* import_resource *)

Layers(e) == source[e].layers
CurrentLayer(e) == Layers(e)[coord[e].index]

\* importer.handlers.utils.should_be_imported: a layer is left out when
\* skip_existing_layer is set and a schema of its name is already there
should_be_imported(layer_name, skip_existing_layer, srows) ==
    ~(skip_existing_layer /\ SchemasNamed(srows, layer_name) # {})

\* the locals of import_resource when the loop moves to the next layer
NextIteration(c) ==
    [c EXCEPT !.pc = IF c.index < c.layer_count THEN "layer" ELSE "returned",
              !.index = c.index + 1, !.layer_name = <<>>, !.use_uuid = FALSE,
              !.foi_schema = 0]

\* layers = ogr.Open(...); layer_count = len(layers): len(None) raises
Open(e) ==
    /\ coord[e].pc = "start"
    /\ coord' = [coord EXCEPT ![e] =
          IF ~source[e].readable
          THEN [@ EXCEPT !.pc = "error"]
          ELSE NextIteration([@ EXCEPT !.layer_count = Len(Layers(e))])]
    /\ UNCHANGED <<source, input_params, exec_updates, schemas, next_id,
                   field_rows, tables, tasks, workflows>>

\* the head of the loop body: should_be_imported, then the progress line
CheckLayer(e) ==
    /\ coord[e].pc = "layer"
    /\ IF should_be_imported(CurrentLayer(e).name,
                             input_params[e].skip_existing_layer, schemas)
       THEN /\ exec_updates' = [exec_updates EXCEPT ![e] = @ + 1]
            /\ coord' = [coord EXCEPT ![e].pc = "get_or_create",
                                      ![e].layer_name = CurrentLayer(e).name]
       ELSE /\ coord' = [coord EXCEPT ![e] = NextIteration(@)]
            /\ UNCHANGED exec_updates
    /\ UNCHANGED <<source, input_params, schemas, next_id, field_rows, tables,
                   tasks, workflows>>

\* a test that forgets the override flag
NeedsUuidWheneverFound(created, should_be_overrided) == ~created

\* if not created and not should_be_overrided
NeedsUuid(created, should_be_overrided) == ~created /\ ~should_be_overrided

\* _setup_dynamic_model, first get_or_create and the test that follows it
SetupDynamicModel(e) ==
    /\ coord[e].pc = "get_or_create"
    /\ LET name == CurrentLayer(e).name
           goc == GetOrCreate(schemas, next_id, name, name)
           again == NeedsUuid(goc.created, input_params[e].override_existing_layer)
       IN  /\ schemas' = goc.rows
           /\ next_id' = goc.next_id
           /\ coord' = [coord EXCEPT ![e] =
                 IF ~goc.ok THEN [@ EXCEPT !.pc = "error"]
                 ELSE IF again
                 THEN [@ EXCEPT !.pc = "get_or_create_uuid", !.use_uuid = TRUE,
                                !.layer_name = UuidName(name, ExecutionId(e)),
                                !.foi_schema = goc.obj.id]
                 ELSE [@ EXCEPT !.pc = "dispatch", !.foi_schema = goc.obj.id]]
    /\ UNCHANGED <<source, input_params, exec_updates, field_rows, tables,
                   tasks, workflows>>

\* _setup_dynamic_model, the get_or_create under the name with the execution id
SetupDynamicModelUuid(e) ==
    /\ coord[e].pc = "get_or_create_uuid"
    /\ LET name == UuidName(CurrentLayer(e).name, ExecutionId(e))
           goc == GetOrCreate(schemas, next_id, name, coord[e].layer_name)
       IN  /\ schemas' = goc.rows
           /\ next_id' = goc.next_id
           /\ coord' = [coord EXCEPT ![e] =
                 IF ~goc.ok THEN [@ EXCEPT !.pc = "error"]
                 ELSE [@ EXCEPT !.pc = "dispatch", !.foi_schema = goc.obj.id]]
    /\ UNCHANGED <<source, input_params, exec_updates, field_rows, tables,
                   tasks, workflows>>

\* an exception of get_or_create that is swallowed, the loop body going on
SetupFailsAndGoesOn(e) ==
    /\ coord[e].pc \in {"get_or_create", "get_or_create_uuid"}
    /\ coord' = [coord EXCEPT ![e].pc = "dispatch"]
    /\ UNCHANGED <<source, input_params, exec_updates, schemas, next_id,
                   field_rows, tables, tasks, workflows>>

\* the storage engine rejects a get_or_create: the exception leaves
\* _setup_dynamic_model and import_resource
SetupFails(e) ==
    /\ coord[e].pc \in {"get_or_create", "get_or_create_uuid"}
    /\ coord' = [coord EXCEPT ![e].pc = "error"]
    /\ UNCHANGED <<source, input_params, exec_updates, schemas, next_id,
                   field_rows, tables, tasks, workflows>>

\* an alternate that is always the layer's own name
AlternateIgnoresUuid(layer_name, use_uuid, execution_id) == layer_name

\* alternate = layer_name if not use_uuid else f"{layer_name}_{...}"
Alternate(layer_name, use_uuid, execution_id) ==
    IF ~use_uuid THEN layer_name ELSE UuidName(layer_name, execution_id)

\* the header of the chord: the tasks of the group, then gpkg_ogr2ogr
ChordHeader(e, index, job, ogr_res) ==
    [k \in {<<e, index, m>> : m \in 0..Len(job)} |->
        IF k[3] = 0 THEN NewTask("gpkg_ogr2ogr", ogr_res)
        ELSE NewTask("gpkg_handler", job[k[3]])]

\* the chord with its body gpkg_next_step.s(execution_id, step, name, alternate)
Chord(header, execution_id, layer_name, alternate) ==
    [header |-> DOMAIN header,
     body |-> <<execution_id, "importer.import_resource", layer_name, alternate>>,
     body_runs |-> 0]

\* the rest of the loop body: create_dynamic_model_fields, the signature of
\* gpkg_ogr2ogr and the chord
Dispatch(e) ==
    /\ coord[e].pc = "dispatch"
    /\ LET layer == CurrentLayer(e)
           override == input_params[e].override_existing_layer
           job == FieldsJob(layer, coord[e].foi_schema, override,
                            ExecutionId(e), coord[e].layer_name)
           alternate == Alternate(layer.name, coord[e].use_uuid, ExecutionId(e))
           ogr_res == OgrArgs(ExecutionId(e), input_params[e].files, layer.name,
                              override, alternate)
           header == ChordHeader(e, coord[e].index, job, ogr_res)
       IN  /\ tasks' = header @@ tasks
           /\ workflows' = (<<e, coord[e].index>> :>
                               Chord(header, ExecutionId(e), layer.name, alternate))
                           @@ workflows
    /\ coord' = [coord EXCEPT ![e] = NextIteration(@)]
    /\ UNCHANGED <<source, input_params, exec_updates, schemas, next_id,
                   field_rows, tables>>

-----------------------------------------------------------------------------
(* The workers *)

\* gpkg_handler up to the loop
HandlerBegin(k) ==
    /\ tasks[k].kind = "gpkg_handler" /\ tasks[k].pc = "queued"
    /\ tasks' = [tasks EXCEPT ![k] = HandlerStart(@, schemas)]
    /\ UNCHANGED <<source, input_params, exec_updates, schemas, next_id,
                   field_rows, tables, coord, workflows>>

\* gpkg_handler, one field
HandlerLoop(k) ==
    /\ tasks[k].kind = "gpkg_handler" /\ tasks[k].pc = "loop"
    /\ LET r == HandlerField(tasks[k], field_rows)
       IN  /\ tasks' = [tasks EXCEPT ![k] = r[1]]
           /\ field_rows' = r[2]
    /\ UNCHANGED <<source, input_params, exec_updates, schemas, next_id,
                   tables, coord, workflows>>

\* gpkg_handler, bulk_create
HandlerInsert(k) ==
    /\ tasks[k].kind = "gpkg_handler" /\ tasks[k].pc = "bulk"
    /\ LET r == HandlerBulk(tasks[k], schemas, field_rows)
       IN  /\ tasks' = [tasks EXCEPT ![k] = r[1]]
           /\ field_rows' = r[2]
    /\ UNCHANGED <<source, input_params, exec_updates, schemas, next_id,
                   tables, coord, workflows>>

\* gpkg_ogr2ogr: the tool runs and the task ends
Ogr2Ogr(k) ==
    /\ tasks[k].kind = "gpkg_ogr2ogr" /\ tasks[k].pc = "queued"
    /\ \E out \in OgrOutcomes :
          /\ tasks' = [tasks EXCEPT ![k] = OgrResult(@, out)]
          /\ tables' = IF out.wrote THEN tables \cup {LastArg(tasks[k].args)} ELSE tables
    /\ UNCHANGED <<source, input_params, exec_updates, schemas, next_id,
                   field_rows, coord, workflows>>

\* an error_callback linked to the gpkg_handler tasks alone
CallbackLookupHandlersOnly(k) ==
    /\ tasks[k].pc = "failed"
    /\ tasks[k].kind = "gpkg_handler"
    /\ tasks' = [tasks EXCEPT ![k].pc =
          IF CallbackFinds(tasks[k], schemas) THEN "drop_table" ELSE "rolled_back"]
    /\ UNCHANGED <<source, input_params, exec_updates, schemas, next_id,
                   field_rows, tables, coord, workflows>>

\* error_callback of a failed task: schema_model.exists()
CallbackLookup(k) ==
    /\ tasks[k].pc = "failed"
    /\ tasks' = [tasks EXCEPT ![k].pc =
          IF CallbackFinds(tasks[k], schemas) THEN "drop_table" ELSE "rolled_back"]
    /\ UNCHANGED <<source, input_params, exec_updates, schemas, next_id,
                   field_rows, tables, coord, workflows>>

\* an error_callback that lets the exception of drop_table through
CallbackDropPropagates(k) ==
    /\ tasks[k].pc = "drop_table"
    /\ \/ /\ tables' = tables \ DroppedTables(tasks[k], schemas)
          /\ tasks' = [tasks EXCEPT ![k].pc = "delete"]
       \/ /\ tables' = tables
          /\ tasks' = [tasks EXCEPT ![k].pc = "callback_raised"]
    /\ UNCHANGED <<source, input_params, exec_updates, schemas, next_id,
                   field_rows, coord, workflows>>

\* error_callback: drop_table, whose failure is logged and forgotten
CallbackDrop(k) ==
    /\ tasks[k].pc = "drop_table"
    /\ \/ tables' = tables \ DroppedTables(tasks[k], schemas)
       \/ tables' = tables
    /\ tasks' = [tasks EXCEPT ![k].pc = "delete"]
    /\ UNCHANGED <<source, input_params, exec_updates, schemas, next_id,
                   field_rows, coord, workflows>>

\* error_callback: schema_model.delete() and return 'error'
CallbackDelete(k) ==
    /\ tasks[k].pc = "delete"
    /\ schemas' = schemas \ DeletedSchemas(tasks[k], schemas)
    /\ field_rows' = CascadeFields(field_rows, DeletedSchemas(tasks[k], schemas))
    /\ tasks' = [tasks EXCEPT ![k].pc = "rolled_back"]
    /\ UNCHANGED <<source, input_params, exec_updates, next_id, tables, coord,
                   workflows>>

\* a chord that calls its body once every task of the header has ended,
\* whatever its outcome
ChordReadyWhenDone(w) ==
    /\ workflows[w].body_runs = 0
    /\ \A k \in workflows[w].header : tasks[k].pc \in {"success", "rolled_back"}

\* a chord over the group of gpkg_handler alone
ChordReadyGroupOnly(w) ==
    /\ workflows[w].body_runs = 0
    /\ \A k \in workflows[w].header :
          tasks[k].kind = "gpkg_handler" => tasks[k].pc = "success"

\* the chord calls its body when every task of the header has succeeded
ChordReady(w) ==
    /\ workflows[w].body_runs = 0
    /\ \A k \in workflows[w].header : tasks[k].pc = "success"

\* gpkg_next_step: the layer goes on to the next stage of the orchestrator
NextStep(w) ==
    /\ ChordReady(w)
    /\ workflows' = [workflows EXCEPT ![w].body_runs = @ + 1]
    /\ UNCHANGED <<source, input_params, exec_updates, schemas, next_id,
                   field_rows, tables, coord, tasks>>

-----------------------------------------------------------------------------
Next ==
    \/ \E e \in Execs : Open(e)
    \/ \E e \in Execs : CheckLayer(e)
    \/ \E e \in Execs : SetupDynamicModel(e)
    \/ \E e \in Execs : SetupDynamicModelUuid(e)
    \/ \E e \in Execs : SetupFails(e)
    \/ \E e \in Execs : Dispatch(e)
    \/ \E k \in DOMAIN tasks : HandlerBegin(k)
    \/ \E k \in DOMAIN tasks : HandlerLoop(k)
    \/ \E k \in DOMAIN tasks : HandlerInsert(k)
    \/ \E k \in DOMAIN tasks : Ogr2Ogr(k)
    \/ \E k \in DOMAIN tasks : CallbackLookup(k)
    \/ \E k \in DOMAIN tasks : CallbackDrop(k)
    \/ \E k \in DOMAIN tasks : CallbackDelete(k)
    \/ \E w \in DOMAIN workflows : NextStep(w)

Spec == Init /\ [][Next]_vars

SpecAlone == InitAlone /\ [][Next]_vars

\* import_resource alone, the dispatched tasks left in their queues
NextCoordinator ==
    \/ \E e \in Execs : Open(e)
    \/ \E e \in Execs : CheckLayer(e)
    \/ \E e \in Execs : SetupDynamicModel(e)
    \/ \E e \in Execs : SetupDynamicModelUuid(e)
    \/ \E e \in Execs : SetupFails(e)
    \/ \E e \in Execs : Dispatch(e)

SpecDispatch == InitWidths /\ [][NextCoordinator]_vars

\* the steps of the workers: the tasks, their error_callback, the chord body
NextWorkers ==
    \/ \E k \in DOMAIN tasks : HandlerBegin(k)
    \/ \E k \in DOMAIN tasks : HandlerLoop(k)
    \/ \E k \in DOMAIN tasks : HandlerInsert(k)
    \/ \E k \in DOMAIN tasks : Ogr2Ogr(k)
    \/ \E k \in DOMAIN tasks : CallbackLookup(k)
    \/ \E k \in DOMAIN tasks : CallbackDrop(k)
    \/ \E k \in DOMAIN tasks : CallbackDelete(k)
    \/ \E w \in DOMAIN workflows : NextStep(w)

\* one execution imports a file of narrow layers
FairScenarios ==
    { [source |-> <<f, File(<<>>)>>, flags |-> <<fl, Flags(FALSE, FALSE)>>, store |-> st] :
        f \in OneLayerFiles \cup NoLayerFiles
              \cup {File(<<Parcels(LayerA), BadGeom(LayerB)>>),
                    File(<<BadColumn(LayerA), Parcels(LayerB)>>)},
        fl \in {Flags(FALSE, FALSE), Flags(TRUE, FALSE)},
        st \in Stores }

InitFair == InitFrom(FairScenarios)

\* one execution, the workers never left idle while a task is waiting
SpecFair == InitFair /\ [][Next]_vars /\ WF_vars(NextWorkers)

-----------------------------------------------------------------------------
(* Properties *)

\* the positions of a task that has raised: before, in and after error_callback
FailedPcs == {"failed", "drop_table", "delete", "rolled_back"}

\* the tasks dispatched for layer w[2] of execution w[1]
TasksOf(w) == {k \in DOMAIN tasks : k[1] = w[1] /\ k[2] = w[2]}

\* a gpkg_handler task one of whose fields has no class or no name
HasUnresolvedField(t) ==
    /\ t.kind = "gpkg_handler"
    /\ \E i \in DOMAIN t.args[2] :
          t.args[2][i].class_name = None \/ t.args[2][i].name = None

\* C1: gpkg_next_step has run for a layer only if every task dispatched for
\* that layer, its gpkg_handler tasks and its gpkg_ogr2ogr task, is in the
\* header of the layer's chord and has ended successfully: it has never run
\* while one of them is pending or has failed.
C1_ContinuationAfterBarrier ==
    \A w \in DOMAIN workflows :
        /\ workflows[w].header = TasksOf(w)
        /\ \E k \in TasksOf(w) : tasks[k].kind = "gpkg_ogr2ogr"
        /\ workflows[w].body_runs > 0 =>
              \A k \in TasksOf(w) : tasks[k].pc = "success"

\* C1 witness: the continuation has run for a layer of two field batches
\* and a bulk load
C1_Witness ==
    \E w \in DOMAIN workflows :
        /\ workflows[w].body_runs > 0
        /\ Cardinality(TasksOf(w)) >= 3

\* C2: once a task of a layer has failed, gpkg_next_step has not run and
\* does not run for that layer, whatever its siblings do, and the execution
\* cannot come to rest before error_callback has run to its end for the
\* failed task.
C2_FailureBlocksContinuation ==
    \A w \in DOMAIN workflows :
        \A k \in TasksOf(w) :
            tasks[k].pc \in FailedPcs =>
                /\ workflows[w].body_runs = 0
                /\ ~ChordReady(w)
                /\ (~ENABLED Next) => tasks[k].pc = "rolled_back"

\* C2 witness: everything has come to rest, a task of the layer has failed
\* and been rolled back, a sibling has succeeded, the continuation has not run
C2_Witness ==
    /\ ~ENABLED Next
    /\ \E w \in DOMAIN workflows :
          /\ \E k \in TasksOf(w) : tasks[k].pc = "rolled_back"
          /\ \E k \in TasksOf(w) : tasks[k].pc = "success"
          /\ workflows[w].body_runs = 0

\* C3: a gpkg_handler task given a field without class or name never reaches
\* bulk_create nor success; the execution cannot come to rest before its
\* error_callback has ended; and once that error_callback has ended no
\* ModelSchema of the layer's resolved name exists.
C3_UnresolvedFieldRollsBack ==
    \A k \in DOMAIN tasks :
        HasUnresolvedField(tasks[k]) =>
            /\ tasks[k].pc \notin {"bulk", "success"}
            /\ (~ENABLED Next) => tasks[k].pc = "rolled_back"
            /\ tasks[k].pc = "rolled_back" =>
                  SchemasNamed(schemas, workflows[<<k[1], k[2]>>].body[4]) = {}

\* C3 witness: the batch with the unresolved field has raised
\* InvalidFieldNameError and been rolled back while a batch of the same
\* layer has inserted its fields and the bulk load has ended
C3_Witness ==
    \E k \in DOMAIN tasks :
        /\ HasUnresolvedField(tasks[k])
        /\ tasks[k].pc = "rolled_back"
        /\ tasks[k].result.value = "InvalidFieldNameError"
        /\ \E j \in TasksOf(<<k[1], k[2]>>) :
              tasks[j].kind = "gpkg_handler" /\ tasks[j].pc = "success"
        /\ tasks[<<k[1], k[2], 0>>].pc \in {"success", "rolled_back"}

\* the layer name followed by "_" and the execution id with "_" for every "-"
SuffixedName(n, e) ==
    n \o <<"_">> \o
    [i \in 1..Len(ExecutionId(e)) |->
        IF ExecutionId(e)[i] = "-" THEN "_" ELSE ExecutionId(e)[i]]

\* execution e takes a step of _setup_dynamic_model that does not raise
SetupStep(e, from) ==
    /\ coord[e].pc = from
    /\ coord'[e].pc \notin {from, "error"}

\* C4: when the first get_or_create of _setup_dynamic_model finds a
\* ModelSchema of the layer's name and override is not requested, the call
\* goes on to a second get_or_create, and what it resolves to is a row that
\* did not exist before, other than the one found, whose name and table name
\* are the layer name, "_" and the execution id with its hyphens turned to
\* underscores; use_uuid is true and the alternate dispatched is that name.
C4_FoundWithoutOverrideCreatesSuffixed ==
    [][\A e \in Execs :
        LET n == CurrentLayer(e).name
            id == coord'[e].foi_schema
        IN  /\ ( /\ SetupStep(e, "get_or_create")
                 /\ SchemasNamed(schemas, n) # {}
                 /\ ~input_params[e].override_existing_layer )
               => coord'[e].pc = "get_or_create_uuid"
            /\ SetupStep(e, "get_or_create_uuid")
               => /\ ~input_params[e].override_existing_layer
                  /\ coord'[e].pc = "dispatch"
                  /\ coord'[e].use_uuid
                  /\ SchemasWithId(schemas, id) = {}
                  /\ \A r \in SchemasNamed(schemas, n) : r.id # id
                  /\ SchemasWithId(schemas', id)
                        = {SchemaRow(id, SuffixedName(n, e), SuffixedName(n, e))}
                  /\ schemas' = schemas \cup SchemasWithId(schemas', id)
            /\ ( /\ coord[e].pc = "dispatch" /\ coord'[e].pc # "dispatch"
                 /\ coord[e].use_uuid )
               => workflows'[<<e, coord[e].index>>].body[4] = SuffixedName(n, e)
      ]_vars

\* C4 witness: the suffixed row has been created next to the row found
C4_Witness ==
    \E e \in Execs :
        /\ coord[e].pc = "dispatch"
        /\ coord[e].use_uuid
        /\ SchemasNamed(schemas, CurrentLayer(e).name) # {}
        /\ SchemasNamed(schemas, SuffixedName(CurrentLayer(e).name, e)) # {}

\* C5: when the first get_or_create of _setup_dynamic_model finds a
\* ModelSchema of the layer's name and override is requested, the call
\* resolves to the row found, the ModelSchema rows are what they were, and
\* use_uuid is false.
C5_FoundWithOverrideReuses ==
    [][\A e \in Execs :
        ( /\ SetupStep(e, "get_or_create")
          /\ SchemasNamed(schemas, CurrentLayer(e).name) # {}
          /\ input_params[e].override_existing_layer )
        => /\ coord'[e].pc = "dispatch"
           /\ ~coord'[e].use_uuid
           /\ schemas' = schemas
           /\ next_id' = next_id
           /\ \E r \in SchemasNamed(schemas, CurrentLayer(e).name) :
                 r.id = coord'[e].foi_schema
      ]_vars

\* C5 witness: an execution with override is about to dispatch on the row an
\* earlier import left behind
C5_Witness ==
    \E e \in Execs :
        /\ coord[e].pc = "dispatch"
        /\ input_params[e].override_existing_layer
        /\ ~coord[e].use_uuid
        /\ coord[e].foi_schema < FirstNewId
        /\ SchemasWithId(schemas, coord[e].foi_schema) # {}

\* the ModelSchema rows that were there before the executions started
PriorRows == {r \in schemas : r.id < FirstNewId}

\* C6: in an execution without override no step removes or changes a
\* ModelSchema that was there before the execution started, its FieldSchema
\* rows or its table; the tasks dispatched for a layer of that name carry the
\* name suffixed with the execution id as their last argument, and the
\* gpkg_handler tasks the id of a row created by the execution.
C6_PriorSchemaUntouched ==
    [][~input_params[1].override_existing_layer =>
        /\ \A r \in PriorRows :
              /\ r \in schemas'
              /\ FieldsOf(field_rows', r.id) = FieldsOf(field_rows, r.id)
              /\ r.db_table_name \in tables => r.db_table_name \in tables'
        /\ \A k \in DOMAIN tasks' :
              LET n == workflows'[<<k[1], k[2]>>].body[3]
              IN  (k[1] = 1 /\ \E r \in PriorRows : r.name = n) =>
                     /\ LastArg(tasks'[k].args) = SuffixedName(n, 1)
                     /\ tasks'[k].kind = "gpkg_handler" =>
                           /\ tasks'[k].args[3] >= FirstNewId
                           /\ \A r \in SchemasWithId(schemas', tasks'[k].args[3]) :
                                 r.name = SuffixedName(n, 1)
      ]_vars

\* C6 witness: a task of the execution has failed and error_callback has
\* deleted the suffixed row, while the row of the earlier import and its
\* fields are still there
C6_Witness ==
    /\ ~input_params[1].override_existing_layer
    /\ \E r \in PriorRows :
          /\ FieldsOf(field_rows, r.id) # {}
          /\ \E k \in DOMAIN tasks :
                /\ k[1] = 1
                /\ workflows[<<k[1], k[2]>>].body[3] = r.name
                /\ tasks[k].pc = "rolled_back"
                /\ SchemasNamed(schemas, LastArg(tasks[k].args)) = {}
          /\ \E k \in DOMAIN tasks :
                /\ k[1] = 1
                /\ tasks[k].kind = "gpkg_handler"
                /\ tasks[k].pc = "success"

\* C7: two executions that import a layer of the same name, neither with
\* override, have been given different ModelSchema rows and different
\* alternates (table names).
C7_RunsNeverShareTable ==
    \A w1, w2 \in DOMAIN workflows :
        ( /\ w1[1] # w2[1]
          /\ workflows[w1].body[3] = workflows[w2].body[3]
          /\ ~input_params[w1[1]].override_existing_layer
          /\ ~input_params[w2[1]].override_existing_layer )
        => /\ workflows[w1].body[4] # workflows[w2].body[4]
           /\ LastArg(tasks[<<w1[1], w1[2], 0>>].args)
                 # LastArg(tasks[<<w2[1], w2[2], 0>>].args)
           /\ tasks[<<w1[1], w1[2], 1>>].args[3] # tasks[<<w2[1], w2[2], 1>>].args[3]

\* C8: a step of a gpkg_handler task one of whose fields has no class or no
\* name, taken before the task raises, leaves the FieldSchema rows as they
\* were, with overwrite and without: the failed batch applies nothing.
C8_FailedBatchAppliesNothing ==
    [][\A k \in DOMAIN tasks :
        ( /\ HasUnresolvedField(tasks[k])
          /\ tasks[k].pc \in {"queued", "loop"}
          /\ tasks'[k] # tasks[k] )
        => field_rows' = field_rows
      ]_vars

\* the FieldSchema rows after gpkg_handler has run once more, alone, with the
\* arguments of task t
RowsAfterRun(t, frows) == HandlerRun(NewTask("gpkg_handler", t.args), schemas, frows)[2]

\* C9: with overwrite, running gpkg_handler a second time with the same
\* arguments leaves the FieldSchema rows the first run left: the same names,
\* classes and kwargs, and one row per name.
C9_UpsertIdempotent ==
    \A k \in DOMAIN tasks :
        (tasks[k].kind = "gpkg_handler" /\ tasks[k].args[4]) =>
            LET once == RowsAfterRun(tasks[k], field_rows)
                twice == RowsAfterRun(tasks[k], once)
            IN  /\ twice = once
                /\ \A r1, r2 \in FieldsOf(once, tasks[k].args[3]) :
                      r1.name = r2.name => r1 = r2

\* C9 witness: two tasks with the same fields, the same schema and overwrite
\* have both run to success
C9_Witness ==
    \E k1, k2 \in DOMAIN tasks :
        /\ k1 # k2
        /\ tasks[k1].kind = "gpkg_handler" /\ tasks[k2].kind = "gpkg_handler"
        /\ tasks[k1].args[4] /\ tasks[k2].args[4]
        /\ tasks[k1].args[2] = tasks[k2].args[2]
        /\ tasks[k1].args[3] = tasks[k2].args[3]
        /\ tasks[k1].pc = "success" /\ tasks[k2].pc = "success"
        /\ Cardinality(FieldsOf(field_rows, tasks[k1].args[3])) >= Len(tasks[k1].args[2])

\* the batches of a sequence of batches, one after the other
RECURSIVE Concat(_)
Concat(ss) == IF ss = <<>> THEN <<>> ELSE Head(ss) \o Concat(Tail(ss))

\* C10: for a layer of N >= 1 fields, geometry included, the chord holds
\* ceil(N/30) gpkg_handler tasks, numbered from 1, each with 1 to 30 fields;
\* their field lists one after the other are the layer's field list; all
\* carry one ModelSchema id and one layer name as last argument.
C10_BatchesPartitionFields ==
    \A w \in DOMAIN workflows :
        LET list == LayerSchema(source[w[1]].layers[w[2]])
            N == Len(list)
            batches == {k \in TasksOf(w) : tasks[k].kind = "gpkg_handler"}
            nb == (N + 29) \div 30
        IN  N >= 1 =>
              /\ batches = {<<w[1], w[2], m>> : m \in 1..nb}
              /\ \A k \in batches :
                    /\ Len(tasks[k].args[2]) \in 1..30
                    /\ tasks[k].args[3] = tasks[<<w[1], w[2], 1>>].args[3]
                    /\ LastArg(tasks[k].args) = LastArg(tasks[<<w[1], w[2], 1>>].args)
              /\ Concat([m \in 1..nb |-> tasks[<<w[1], w[2], m>>].args[2]]) = list

\* C10 witness: a layer of 61 fields has been dispatched in batches of 30,
\* 30 and 1
C10_Witness ==
    \E w \in DOMAIN workflows :
        /\ Len(LayerSchema(source[w[1]].layers[w[2]])) = 61
        /\ <<w[1], w[2], 3>> \in DOMAIN tasks
        /\ Len(tasks[<<w[1], w[2], 1>>].args[2]) = 30
        /\ Len(tasks[<<w[1], w[2], 2>>].args[2]) = 30
        /\ Len(tasks[<<w[1], w[2], 3>>].args[2]) = 1

\* C11: once import_resource has ended on a readable file none of whose
\* layers is left out by skip_existing_layer, every layer of the file has its
\* chord dispatched, the one whose _setup_dynamic_model raised excepted: the
\* layers enumerated after a failed one are dispatched all the same.
C11_SiblingLayersStillDispatched ==
    \A e \in Execs :
        ( /\ coord[e].pc \in {"returned", "error"}
          /\ source[e].readable
          /\ ~input_params[e].skip_existing_layer )
        => \A i \in 1..Len(Layers(e)) :
              \/ coord[e].pc = "error" /\ i = coord[e].index
              \/ <<e, i>> \in DOMAIN workflows

\* C12: when the file cannot be opened or holds no layer, import_resource
\* ends with an error, and no task and no chord of the execution exists.
C12_NoLayersFailsFast ==
    \A e \in Execs :
        ( /\ coord[e].pc # "start"
          /\ ~source[e].readable \/ Len(Layers(e)) = 0 )
        => /\ coord[e].pc = "error"
           /\ \A k \in DOMAIN tasks : k[1] # e
           /\ \A w \in DOMAIN workflows : w[1] # e

\* C13: whatever the tool hands back, gpkg_ogr2ogr raises exactly when the
\* bytes of stderr are not empty, and what it raises carries those bytes;
\* when they are empty it ends successfully and returns the text of stdout.
\* The gpkg_ogr2ogr tasks that have ended show one of these two results.
C13_Ogr2OgrFailsIffStderr ==
    \A k \in DOMAIN tasks :
        tasks[k].kind = "gpkg_ogr2ogr" =>
            /\ \A out \in OgrOutcomes :
                  LET r == OgrResult(NewTask("gpkg_ogr2ogr", tasks[k].args), out)
                  IN  /\ r.pc = "failed" <=> out.stderr # <<>>
                      /\ r.pc = "success" <=> out.stderr = <<>>
                      /\ out.stderr # <<>> =>
                            r.result = [raised |-> TRUE, value |-> out.stderr]
                      /\ out.stderr = <<>> =>
                            /\ ~r.result.raised
                            /\ Len(r.result.value) = Len(out.stdout)
                            /\ \A i \in DOMAIN out.stdout :
                                  r.result.value[i] = Chr(out.stdout[i])
            /\ tasks[k].pc \in FailedPcs =>
                  /\ tasks[k].result.raised
                  /\ \E out \in OgrOutcomes :
                        out.stderr # <<>> /\ tasks[k].result.value = out.stderr
            /\ tasks[k].pc = "success" =>
                  /\ ~tasks[k].result.raised
                  /\ \E out \in OgrOutcomes :
                        /\ out.stderr = <<>>
                        /\ tasks[k].result.value = Decode(out.stdout)

\* C13 witness: the tool has written the table and a line on stderr, and the
\* task has failed with that line
C13_Witness ==
    \E k \in DOMAIN tasks :
        /\ tasks[k].kind = "gpkg_ogr2ogr"
        /\ tasks[k].pc = "failed"
        /\ tasks[k].result = [raised |-> TRUE, value |-> <<69>>]
        /\ LastArg(tasks[k].args) \in tables
        /\ \A j \in DOMAIN tasks : j # k => tasks[j].pc = "queued"
        /\ \A e \in Execs : e # k[1] => coord[e].pc = "start"

\* C14: the step of error_callback that asks for the table to be dropped
\* always leads on to schema_model.delete(), whether the table went or the
\* drop raised and the table is still there, and it touches no ModelSchema
\* and no FieldSchema; the delete that follows leaves no ModelSchema of the
\* task's last argument and ends the callback with its normal result.
C14_DropFailureSwallowed ==
    [][\A k \in DOMAIN tasks :
        /\ (tasks[k].pc = "drop_table" /\ tasks'[k].pc # "drop_table") =>
              /\ tasks'[k].pc = "delete"
              /\ schemas' = schemas
              /\ field_rows' = field_rows
        /\ (tasks[k].pc = "delete" /\ tasks'[k].pc # "delete") =>
              /\ tasks'[k].pc = "rolled_back"
              /\ SchemasNamed(schemas', LastArg(tasks[k].args)) = {}
              /\ tables' = tables
      ]_vars

\* C14 witness: the only task that has failed was rolled back with the drop
\* raising: the table of the earlier import is still there, its ModelSchema
\* is gone, and the bulk load of the layer has not started
C14_Witness ==
    \E k \in DOMAIN tasks :
        /\ tasks[k].pc = "rolled_back"
        /\ LastArg(tasks[k].args) \in tables
        /\ SchemasNamed(schemas, LastArg(tasks[k].args)) = {}
        /\ \A j \in DOMAIN tasks :
              /\ j[1] = k[1]
              /\ j # k => tasks[j].pc \notin FailedPcs
              /\ tasks[j].kind = "gpkg_ogr2ogr" => tasks[j].pc = "queued"

\* C15: tasks and chords come into being only in the step of import_resource
\* that follows a _setup_dynamic_model that has resolved a ModelSchema: they
\* belong to the layer just provisioned, and the gpkg_handler tasks carry the
\* id of the row resolved. When _setup_dynamic_model raises, nothing is
\* dispatched in that step and the layer has no task and no chord.
C15_ProvisioningBeforeDispatch ==
    [][\A e \in Execs :
        LET new == {k \in DOMAIN tasks' : k[1] = e} \ DOMAIN tasks
            chords == {w \in DOMAIN workflows' : w[1] = e} \ DOMAIN workflows
        IN  /\ (new # {} \/ chords # {}) =>
                  /\ coord[e].pc = "dispatch"
                  /\ coord[e].foi_schema \in 1..(next_id - 1)
                  /\ chords = {<<e, coord[e].index>>}
                  /\ \A k \in new :
                        /\ k[2] = coord[e].index
                        /\ tasks'[k].pc = "queued"
                        /\ tasks'[k].kind = "gpkg_handler" =>
                              tasks'[k].args[3] = coord[e].foi_schema
            /\ (coord[e].pc # "error" /\ coord'[e].pc = "error") =>
                  /\ new = {} /\ chords = {}
                  /\ \A k \in DOMAIN tasks' : ~(k[1] = e /\ k[2] = coord'[e].index)
                  /\ <<e, coord'[e].index>> \notin DOMAIN workflows'
      ]_vars

\* C15 witness: _setup_dynamic_model has raised for the second layer of a
\* file whose first layer was dispatched
C15_Witness ==
    \E e \in Execs :
        /\ coord[e].pc = "error"
        /\ coord[e].index = 2
        /\ <<e, 1>> \in DOMAIN workflows
        /\ \A k \in DOMAIN tasks : k[1] = e => k[2] = 1

C17_NamesConsistent ==
    \A w \in DOMAIN workflows :
        \E r \in schemas :
            /\ r.name = workflows[w].body[4]
            /\ r.db_table_name = r.name
            /\ r.name \in {workflows[w].body[3],
                           SuffixedName(workflows[w].body[3], w[1])}
            /\ \A k \in TasksOf(w) :
                  /\ LastArg(tasks[k].args) = r.name
                  /\ tasks[k].kind = "gpkg_handler" => tasks[k].args[3] = r.id
                  /\ tasks[k].kind = "gpkg_ogr2ogr" =>
                        tasks[k].args[3] = workflows[w].body[3]

\* C17 witness: a layer dispatched under the name with the execution id,
\* with two field batches and the bulk load
C17_Witness ==
    \E w \in DOMAIN workflows :
        /\ workflows[w].body[4] = SuffixedName(workflows[w].body[3], w[1])
        /\ Cardinality(TasksOf(w)) >= 3
        /\ \A k \in TasksOf(w) : LastArg(tasks[k].args) = workflows[w].body[4]

\* the ids of the ModelSchema that _setup_dynamic_model resolved for the
\* layer of chord w, as its gpkg_handler tasks carry them
ResolvedIds(w) ==
    {tasks[j].args[3] : j \in {i \in TasksOf(w) : tasks[i].kind = "gpkg_handler"}}

\* C18: a step of error_callback for a failed task removes at most one
\* ModelSchema; the one it removes has the task's last argument for name and
\* is the row _setup_dynamic_model resolved for that layer in that execution;
\* every other ModelSchema and the FieldSchema rows of every other
\* ModelSchema stay as they are, and no row is added.
C18_RollbackDeletesOwnRecordOnly ==
    [][\A k \in DOMAIN tasks :
        (tasks[k].pc \in {"failed", "drop_table", "delete"} /\ tasks'[k] # tasks[k]) =>
            LET name == LastArg(tasks[k].args)
                gone == schemas \ schemas'
            IN  /\ Cardinality(gone) <= 1
                /\ schemas' \subseteq schemas
                /\ \A r \in gone :
                      /\ r.name = name
                      /\ ResolvedIds(<<k[1], k[2]>>) # {} =>
                            r.id \in ResolvedIds(<<k[1], k[2]>>)
                /\ \A r \in schemas' :
                      FieldsOf(field_rows', r.id) = FieldsOf(field_rows, r.id)
                /\ field_rows' \subseteq field_rows
      ]_vars

LayerIndexes == {1, 2}

\* chord w has come to its end: every task of the header has ended, and
\* either all succeeded and gpkg_next_step ran once, or one at least was
\* rolled back and gpkg_next_step did not run
Outcome(w) ==
    /\ w \in DOMAIN workflows
    /\ \A k \in TasksOf(w) : tasks[k].pc \in {"success", "rolled_back"}
    /\ \/ /\ workflows[w].body_runs = 1
          /\ \A k \in TasksOf(w) : tasks[k].pc = "success"
       \/ /\ workflows[w].body_runs = 0
          /\ \E k \in TasksOf(w) : tasks[k].pc = "rolled_back"

\* C20: gpkg_next_step runs at most once for a layer and never for a layer
\* one of whose tasks has failed; and when the workers are scheduled fairly
\* every chord dispatched comes to its end, with gpkg_next_step run once and
\* no error_callback, or with an error_callback and no gpkg_next_step.
C20_WorkflowEndsOneWay ==
    /\ [](\A w \in DOMAIN workflows :
            /\ workflows[w].body_runs <= 1
            /\ ~( /\ workflows[w].body_runs >= 1
                  /\ \E k \in TasksOf(w) : tasks[k].pc \in FailedPcs ))
    /\ \A e \in Execs : \A i \in LayerIndexes :
          (<<e, i>> \in DOMAIN workflows) ~> Outcome(<<e, i>>)

\* C20 witness: of the two layers of a file one has ended with its
\* continuation and the other with a rollback
C20_Witness ==
    \E e \in Execs :
        /\ Outcome(<<e, 1>>) /\ Outcome(<<e, 2>>)
        /\ workflows[<<e, 1>>].body_runs # workflows[<<e, 2>>].body_runs

====
